---- MODULE Spec2Model ----
(***************************************************************************)
(* Model of the media search facade: ElasticsearchService (query builder,  *)
(* paginated index call, hit conversion, thumbnail derivation), the        *)
(* MediaFetchService base class (search, normalize_media_item),            *)
(* MediaItem.to_dict and the API layer's build_image_url.  Spec is the     *)
(* service used by one caller at a time, SpecThreads the search run by     *)
(* several callers at once over a heap of shared object identities.        *)
(*                                                                         *)
(* Python values are tagged records [t, n, s]; a Python string is a tuple  *)
(* of one-character strings so that slicing, stripping, padding and digit  *)
(* tests are computed as the interpreter computes them.  A Python dict is  *)
(* a function whose domain is its key set.                                 *)
(***************************************************************************)
EXTENDS Integers, Sequences, FiniteSets, TLC

----------------------------------------------------------------------------
\* Bounds of the model

MaxPage == 2          \* the latest page requested
MaxFilters == 2       \* entries of a filter map
MaxHits == 2          \* hits of one index response
MaxMoreTotal == 1     \* how far the reported total exceeds the returned hits
MaxNormalize == 2     \* direct normalize_media_item calls on one record
MaxDocs == 2          \* documents an index holds
MaxThreads == 2       \* callers searching at the same time

\* Program constants

TitleLen == 50        \* suchtext[:50]
PadWidth == 10        \* bildnummer.zfill(10)
SizeCap == 100        \* "Size should be capped at 100"

----------------------------------------------------------------------------
\* Python values

PyStr(s) == [t |-> "str", n |-> 0, s |-> s]
PyInt(n) == [t |-> "int", n |-> n, s |-> <<>>]
\* a float with one decimal place, n counts tenths (PyFloat(125) is 12.5)
PyFloat(n) == [t |-> "float", n |-> n, s |-> <<>>]
PyBool(b) == [t |-> "bool", n |-> IF b THEN 1 ELSE 0, s |-> <<>>]
PyNone == [t |-> "none", n |-> 0, s |-> <<>>]
\* an array of n null elements
PyList(n) == [t |-> "list", n |-> n, s |-> <<>>]

EmptyStr == PyStr(<<>>)
EmptyDict == <<>>

\* bool(v)
Truthy(v) ==
    CASE v.t = "str" -> v.s # <<>>
      [] v.t = "none" -> FALSE
      [] OTHER -> v.n # 0

\* isinstance(v, int): bool is a subclass of int
IsInstanceInt(v) == v.t \in {"int", "bool"}

\* isinstance(v, str)
IsInstanceStr(v) == v.t = "str"

\* d.get(k, default)
Get(d, k, default) == IF k \in DOMAIN d THEN d[k] ELSE default

\* d[k] = v
Put(d, k, v) == [x \in (DOMAIN d) \cup {k} |-> IF x = k THEN v ELSE d[x]]

----------------------------------------------------------------------------
\* Python string operations

AsciiDigits == <<"0", "1", "2", "3", "4", "5", "6", "7", "8", "9">>

\* "sup2" stands for U+00B2 SUPERSCRIPT TWO: a digit for str.isdigit, not a
\* decimal for int()
Sup2 == "sup2"

Whitespace == {" ", "\t", "\n"}

IsDecimalChar(c) == \E i \in 1..10 : AsciiDigits[i] = c

DigitValue(c) == (CHOOSE i \in 1..10 : AsciiDigits[i] = c) - 1

\* str.isdigit()
isdigit(s) == s # <<>> /\ \A i \in 1..Len(s) : IsDecimalChar(s[i]) \/ s[i] = Sup2

RECURSIVE NatToStr(_)
NatToStr(n) ==
    IF n < 10 THEN <<AsciiDigits[n + 1]>>
    ELSE NatToStr(n \div 10) \o <<AsciiDigits[(n % 10) + 1]>>

\* str(n) for an int
IntToStr(n) == IF n < 0 THEN <<"-">> \o NatToStr(-n) ELSE NatToStr(n)

\* str(v), as an f-string or str() renders a value
RECURSIVE NoneList(_)
NoneList(n) ==
    IF n = 0 THEN <<>>
    ELSE IF n = 1 THEN <<"N", "o", "n", "e">>
    ELSE NoneList(n - 1) \o <<",", " ", "N", "o", "n", "e">>

pystr(v) ==
    CASE v.t = "str" -> v.s
      [] v.t = "int" -> IntToStr(v.n)
      [] v.t = "bool" -> IF v.n = 1 THEN <<"T", "r", "u", "e">>
                         ELSE <<"F", "a", "l", "s", "e">>
      [] v.t = "none" -> <<"N", "o", "n", "e">>
      [] v.t = "float" ->
            (IF v.n < 0 THEN <<"-">> ELSE <<>>)
            \o NatToStr((IF v.n < 0 THEN -v.n ELSE v.n) \div 10)
            \o <<".">> \o NatToStr((IF v.n < 0 THEN -v.n ELSE v.n) % 10)
      [] v.t = "list" -> <<"[">> \o NoneList(v.n) \o <<"]">>

\* int(s) for a string s: the value, or ValueError when a character is no
\* decimal digit
RECURSIVE ParseNat(_)
ParseNat(s) ==
    IF s = <<>> THEN 0
    ELSE 10 * ParseNat(SubSeq(s, 1, Len(s) - 1)) + DigitValue(s[Len(s)])

pyint(s) ==
    IF s # <<>> /\ \A i \in 1..Len(s) : IsDecimalChar(s[i])
    THEN [exc |-> "none", n |-> ParseNat(s)]
    ELSE [exc |-> "ValueError", n |-> 0]

\* s[:k]
Prefix(s, k) == SubSeq(s, 1, IF Len(s) < k THEN Len(s) ELSE k)

RECURSIVE lstrip(_)
lstrip(s) ==
    IF s # <<>> /\ s[1] \in Whitespace THEN lstrip(Tail(s)) ELSE s

RECURSIVE rstrip(_)
rstrip(s) ==
    IF s # <<>> /\ s[Len(s)] \in Whitespace
    THEN rstrip(SubSeq(s, 1, Len(s) - 1)) ELSE s

\* s.strip()
strip(s) == rstrip(lstrip(s))

RECURSIVE Zeros(_)
Zeros(k) == IF k <= 0 THEN <<>> ELSE <<"0">> \o Zeros(k - 1)

\* s.zfill(w): zeros go after a leading sign
zfill(s, w) ==
    IF Len(s) >= w THEN s
    ELSE IF s # <<>> /\ s[1] \in {"+", "-"}
         THEN <<s[1]>> \o Zeros(w - Len(s)) \o Tail(s)
         ELSE Zeros(w - Len(s)) \o s

----------------------------------------------------------------------------
\* ElasticsearchService._build_elasticsearch_query
\*
\* A filter map is [none |-> BOOLEAN, items |-> sequence of <<key, value>>]:
\* none is Python's None, items are the dict's entries in insertion order.

NoFilters == [none |-> TRUE, items |-> <<>>]

FilterDict(items) == [none |-> FALSE, items |-> items]

FilterKeySet(f) == {f.items[i][1] : i \in 1..Len(f.items)}

FilterValue(f, k) == f.items[CHOOSE i \in 1..Len(f.items) : f.items[i][1] = k][2]

\* the field list of the multi_match clause
SearchFields == <<"suchtext", "description", "title">>

MatchAll == [match_all |-> EmptyDict]

\* a multi_match clause that leaves the title field out
MatchQueryNoTitle(query) ==
    IF query # <<>>
    THEN [multi_match |-> [query |-> query, fields |-> <<"suchtext", "description">>]]
    ELSE MatchAll

\* lines 139-148
MatchQuery(query) ==
    IF query # <<>>
    THEN [multi_match |-> [query |-> query, fields |-> SearchFields]]
    ELSE MatchAll

TermCond(field, value) == [term |-> (field :> value)]

RangeCond(bound, value) == [range |-> [datum |-> (bound :> value)]]

\* lines 168-171: the custom filters, in the dict's order
RECURSIVE CustomConds(_)
CustomConds(items) ==
    IF items = <<>> THEN <<>>
    ELSE (IF items[1][1] \notin {"photographer", "min_date", "max_date"}
          THEN <<TermCond(items[1][1], items[1][2])>> ELSE <<>>)
         \o CustomConds(Tail(items))

\* the filter list with an exclusive lower date bound
FilterConditionsExclusiveMin(f) ==
    (IF "photographer" \in FilterKeySet(f)
     THEN <<TermCond("fotografen", FilterValue(f, "photographer"))>> ELSE <<>>)
    \o (IF "min_date" \in FilterKeySet(f)
        THEN <<RangeCond("gt", FilterValue(f, "min_date"))>> ELSE <<>>)
    \o (IF "max_date" \in FilterKeySet(f)
        THEN <<RangeCond("lte", FilterValue(f, "max_date"))>> ELSE <<>>)
    \o CustomConds(f.items)

\* the filter list with the lower date bound assigned, not appended
FilterConditionsRangeOverwrites(f) ==
    (IF "min_date" \in FilterKeySet(f)
     THEN <<RangeCond("gte", FilterValue(f, "min_date"))>>
     ELSE IF "photographer" \in FilterKeySet(f)
          THEN <<TermCond("fotografen", FilterValue(f, "photographer"))>> ELSE <<>>)
    \o (IF "max_date" \in FilterKeySet(f)
        THEN <<RangeCond("lte", FilterValue(f, "max_date"))>> ELSE <<>>)
    \o CustomConds(f.items)

\* lines 151-171
FilterConditions(f) ==
    (IF "photographer" \in FilterKeySet(f)
     THEN <<TermCond("fotografen", FilterValue(f, "photographer"))>> ELSE <<>>)
    \o (IF "min_date" \in FilterKeySet(f)
        THEN <<RangeCond("gte", FilterValue(f, "min_date"))>> ELSE <<>>)
    \o (IF "max_date" \in FilterKeySet(f)
        THEN <<RangeCond("lte", FilterValue(f, "max_date"))>> ELSE <<>>)
    \o CustomConds(f.items)

\* the builder wrapping whenever a filter map is given, empty or not
build_elasticsearch_query_wrap_empty(query, f) ==
    IF ~f.none
    THEN [bool |-> [must |-> MatchQuery(query), filter |-> FilterConditions(f)]]
    ELSE MatchQuery(query)

\* lines 126-180
build_elasticsearch_query(query, f) ==
    IF ~f.none /\ Len(f.items) > 0
    THEN [bool |-> [must |-> MatchQuery(query), filter |-> FilterConditions(f)]]
    ELSE MatchQuery(query)

----------------------------------------------------------------------------
\* MediaItem and the hit conversion

MediaItem(id, title, description, photographer, date, additional_data) ==
    [id |-> id, title |-> title, description |-> description,
     photographer |-> photographer, date |-> date, thumbnail_url |-> EmptyStr,
     additional_data |-> additional_data]

\* an operation's outcome: exc is "none" or the exception raised, val the
\* value returned (or the object as the exception left it)
Returned(v) == [exc |-> "none", val |-> v]
Raised(e, v) == [exc |-> e, val |-> v]

Chars_bild == <<"/", "b", "i", "l", "d", "/">>
Chars_sjpg == <<"/", "s", ".", "j", "p", "g">>

\* os.environ.get("IMAGE_BASE_URL")
ImageBaseUrl(environ) == Get(environ, "IMAGE_BASE_URL", PyNone)

\* the URL with the bildnummer embedded as it is, without padding
build_thumbnail_url_unpadded(bildnummer, db, environ) ==
    IF bildnummer.t # "str"
    THEN Raised("AttributeError", EmptyStr)
    ELSE Returned(PyStr(pystr(ImageBaseUrl(environ)) \o Chars_bild \o pystr(db)
                        \o <<"/">> \o bildnummer.s \o Chars_sjpg))

\* ElasticsearchService.build_thumbnail_url: zfill exists on str only
build_thumbnail_url(bildnummer, db, environ) ==
    IF bildnummer.t # "str"
    THEN Raised("AttributeError", EmptyStr)
    ELSE Returned(PyStr(pystr(ImageBaseUrl(environ)) \o Chars_bild \o pystr(db)
                        \o <<"/">> \o zfill(bildnummer.s, PadWidth) \o Chars_sjpg))

\* suchtext[:50].strip(), evaluated whether or not the source has a title
TitleFallback(suchtext) ==
    CASE suchtext.t = "str" -> Returned(PyStr(strip(Prefix(suchtext.s, TitleLen))))
      [] suchtext.t = "list" -> Raised("AttributeError", EmptyStr)
      [] OTHER -> Raised("TypeError", EmptyStr)

PromotedKeys == {"title", "description", "fotografen", "datum"}

\* the initial additional_data with "0" as the default bildnummer
InitialAdditionalDataZeroBildnummer(hit) ==
    [bildnummer |-> PyStr(<<"0">>), hoehe |-> PyInt(0), breite |-> PyInt(0),
     db |-> PyStr(<<"s", "t">>), score |-> Get(hit, "_score", PyInt(0))]

\* lines 226-232: the additional_data a record starts with
InitialAdditionalData(hit) ==
    [bildnummer |-> EmptyStr, hoehe |-> PyInt(0), breite |-> PyInt(0),
     db |-> PyStr(<<"s", "t">>), score |-> Get(hit, "_score", PyInt(0))]

\* the merge copying the promoted fields as well
MergeSourceAll(ad, source) ==
    [k \in (DOMAIN ad) \cup (DOMAIN source) |->
        IF k \in DOMAIN source THEN source[k] ELSE ad[k]]

\* lines 235-238: every source field that is not promoted overwrites or
\* extends additional_data
MergeSource(ad, source) ==
    [k \in (DOMAIN ad) \cup ((DOMAIN source) \ PromotedKeys) |->
        IF k \in (DOMAIN source) \ PromotedKeys THEN source[k] ELSE ad[k]]

\* ElasticsearchService.convert_hit_to_media_item
convert_hit_to_media_item(hit, environ) ==
    LET source == Get(hit, "_source", EmptyDict)
        suchtext == Get(source, "suchtext", EmptyStr)
        fallback == TitleFallback(suchtext)
        ad == MergeSource(InitialAdditionalData(hit), source)
        media_item == MediaItem(Get(hit, "_id", EmptyStr),
                                Get(source, "title", fallback.val),
                                Get(source, "description", suchtext),
                                Get(source, "fotografen", EmptyStr),
                                Get(source, "datum", EmptyStr),
                                ad)
        bildnummer == Get(ad, "bildnummer", EmptyStr)
        db == Get(ad, "db", EmptyStr)
        url == build_thumbnail_url(bildnummer, db, environ)
    IN  IF fallback.exc # "none" THEN Raised(fallback.exc, media_item)
        ELSE IF Truthy(bildnummer) /\ Truthy(db)
             THEN IF url.exc # "none" THEN Raised(url.exc, media_item)
                  ELSE Returned([media_item EXCEPT !.thumbnail_url = url.val])
             ELSE Returned(media_item)

----------------------------------------------------------------------------
\* MediaFetchService.normalize_media_item

\* media_fetch_service.py lines 67-72
Defaults ==
    [bildnummer |-> EmptyStr, hoehe |-> PyInt(0), breite |-> PyInt(0),
     db |-> PyStr(<<"s", "t">>)]

\* the defaulting loop with the db default forgotten
ApplyDefaultsNoDb(ad) ==
    [k \in (DOMAIN ad) \cup ((DOMAIN Defaults) \ {"db"}) |->
        IF k \in DOMAIN ad THEN ad[k] ELSE Defaults[k]]

\* the defaulting loop writing the default over a value already there
ApplyDefaultsOverwriting(ad) ==
    [k \in (DOMAIN ad) \cup (DOMAIN Defaults) |->
        IF k \in DOMAIN Defaults THEN Defaults[k] ELSE ad[k]]

\* media_fetch_service.py lines 74-76
ApplyDefaults(ad) ==
    [k \in (DOMAIN ad) \cup (DOMAIN Defaults) |->
        IF k \in DOMAIN ad THEN ad[k] ELSE Defaults[k]]

\* media_fetch_service.py lines 79-81
CoerceBildnummer(ad) ==
    IF IsInstanceInt(ad["bildnummer"])
    THEN Put(ad, "bildnummer", PyStr(pystr(ad["bildnummer"])))
    ELSE ad

\* the dimension rule with the bildnummer rule applied to the field as well
CoerceDimensionToggling(ad, field) ==
    LET value == ad[field] IN
    IF IsInstanceStr(value) /\ isdigit(value.s)
    THEN IF pyint(value.s).exc # "none"
         THEN Raised(pyint(value.s).exc, ad)
         ELSE Returned(Put(ad, field, PyInt(pyint(value.s).n)))
    ELSE IF IsInstanceInt(value)
         THEN Returned(Put(ad, field, PyStr(pystr(value))))
         ELSE Returned(ad)

\* media_fetch_service.py lines 84-87 for one field: int(value) may raise
CoerceDimension(ad, field) ==
    LET value == ad[field] IN
    IF IsInstanceStr(value) /\ isdigit(value.s)
    THEN IF pyint(value.s).exc # "none"
         THEN Raised(pyint(value.s).exc, ad)
         ELSE Returned(Put(ad, field, PyInt(pyint(value.s).n)))
    ELSE Returned(ad)

\* media_fetch_service.py lines 59-87: the record is changed in place, so an exception leaves what
\* was written before it
normalize_media_item(media_item) ==
    LET ad1 == CoerceBildnummer(ApplyDefaults(media_item.additional_data))
        h == CoerceDimension(ad1, "hoehe")
        b == CoerceDimension(h.val, "breite")
    IN  IF h.exc # "none"
        THEN Raised(h.exc, [media_item EXCEPT !.additional_data = h.val])
        ELSE [exc |-> b.exc, val |-> [media_item EXCEPT !.additional_data = b.val]]

----------------------------------------------------------------------------
\* MediaItem.to_dict and the API layer's build_image_url

NamedKeys == {"id", "title", "description", "photographer", "date", "thumbnail_url"}

\* the serialization keeping the named attribute where the names collide
to_dict_named_wins(media_item) ==
    [k \in NamedKeys \cup (DOMAIN media_item.additional_data) |->
        IF k \in NamedKeys THEN media_item[k] ELSE media_item.additional_data[k]]

\* media_item.py lines 19-33: the six attributes, then update() with the
\* additional data
to_dict(media_item) ==
    [k \in NamedKeys \cup (DOMAIN media_item.additional_data) |->
        IF k \in DOMAIN media_item.additional_data
        THEN media_item.additional_data[k] ELSE media_item[k]]

\* the URL with the identifier padded on the right
build_image_url_right_padded(base_url, media) ==
    LET db == Get(media, "db", PyStr(<<"s", "t">>))
        media_id == pystr(Get(media, "bildnummer", EmptyStr))
    IN  PyStr(pystr(base_url) \o Chars_bild
              \o pystr(IF db = PyStr(<<"s", "t", "o", "c", "k">>)
                       THEN PyStr(<<"s", "t">>) ELSE db)
              \o <<"/">> \o media_id \o Zeros(PadWidth - Len(media_id)) \o Chars_sjpg)

\* api/routes.py lines 88-102
build_image_url(base_url, media) ==
    LET db == Get(media, "db", PyStr(<<"s", "t">>))
        media_id == pystr(Get(media, "bildnummer", EmptyStr))
    IN  PyStr(pystr(base_url) \o Chars_bild
              \o pystr(IF db = PyStr(<<"s", "t", "o", "c", "k">>)
                       THEN PyStr(<<"s", "t">>) ELSE db)
              \o <<"/">> \o zfill(media_id, PadWidth) \o Chars_sjpg)

----------------------------------------------------------------------------
\* ElasticsearchService.process_search_results, fetch_media_items and
\* MediaFetchService.search
\*
\* A response is an ObjectApiResponse, which carries its mapping in the
\* attribute body, or a plain dict, which is the mapping itself.

ObjectApiResponse(mapping) == [hasBody |-> TRUE, body |-> mapping, dict |-> EmptyDict]
DictResponse(mapping) == [hasBody |-> FALSE, body |-> EmptyDict, dict |-> mapping]

\* the response taken for the mapping whether or not it has a body
ResponseBodyAsGiven(response) == response.dict

\* lines 192-195
ResponseBody(response) == IF response.hasBody THEN response.body ELSE response.dict

\* [f(x) for x in xs], stopping at the first exception
RECURSIVE ConvertAll(_, _)
ConvertAll(hits_list, environ) ==
    IF hits_list = <<>> THEN Returned(<<>>)
    ELSE LET first == convert_hit_to_media_item(hits_list[1], environ)
             rest == ConvertAll(Tail(hits_list), environ)
         IN  IF first.exc # "none" THEN Raised(first.exc, <<>>)
             ELSE IF rest.exc # "none" THEN rest
             ELSE Returned(<<first.val>> \o rest.val)

\* the result processing with the total taken from the length of the hit list
process_search_results_counting(response, environ) ==
    LET response_body == ResponseBody(response)
        hits == Get(response_body, "hits", EmptyDict)
        hits_list == Get(hits, "hits", <<>>)
        items == ConvertAll(hits_list, environ)
    IN  [exc |-> items.exc, val |-> [total |-> PyInt(Len(hits_list)), items |-> items.val]]

\* the result processing indexing the envelope instead of using get
process_search_results_strict(response, environ) ==
    LET response_body == ResponseBody(response)
        present == /\ "hits" \in DOMAIN response_body
                   /\ {"total", "hits"} \subseteq DOMAIN response_body["hits"]
        hits == Get(response_body, "hits", EmptyDict)
        total == Get(Get(hits, "total", EmptyDict), "value", PyInt(0))
        hits_list == Get(hits, "hits", <<>>)
        items == ConvertAll(hits_list, environ)
    IN  IF ~present THEN Raised("KeyError", [total |-> PyInt(0), items |-> <<>>])
        ELSE [exc |-> items.exc, val |-> [total |-> total, items |-> items.val]]

\* lines 182-201
process_search_results(response, environ) ==
    LET response_body == ResponseBody(response)
        hits == Get(response_body, "hits", EmptyDict)
        total == Get(Get(hits, "total", EmptyDict), "value", PyInt(0))
        hits_list == Get(hits, "hits", <<>>)
        items == ConvertAll(hits_list, environ)
    IN  [exc |-> items.exc, val |-> [total |-> total, items |-> items.val]]

\* media_fetch_service.py lines 37-38: for item in items: normalize
RECURSIVE NormalizeAll(_)
NormalizeAll(items) ==
    IF items = <<>> THEN Returned(<<>>)
    ELSE LET first == normalize_media_item(items[1])
             rest == NormalizeAll(Tail(items))
         IN  IF first.exc # "none" THEN Raised(first.exc, <<>>)
             ELSE IF rest.exc # "none" THEN rest
             ELSE Returned(<<first.val>> \o rest.val)

\* the request with the offset one page too far
IndexRequestNextPage(query, page, size, f) ==
    [query |-> build_elasticsearch_query(query, f),
     from_ |-> page * size,
     size |-> size]

\* the request fetch_media_items sends: lines 110-121 with the page as given
IndexRequest(query, page, size, f) ==
    [query |-> build_elasticsearch_query(query, f),
     from_ |-> (page - 1) * size,
     size |-> size]

\* what search returns once the index has answered: lines 123-124 and
\* media_fetch_service.py lines 34-40
SearchOutcome(response, environ) ==
    LET fetched == process_search_results(response, environ)
        normalized == NormalizeAll(fetched.val.items)
    IN  IF fetched.exc # "none" THEN Raised(fetched.exc, [total |-> PyInt(0), items |-> <<>>])
        ELSE IF normalized.exc # "none"
             THEN Raised(normalized.exc, [total |-> PyInt(0), items |-> <<>>])
             ELSE Returned([total |-> fetched.val.total, items |-> normalized.val])

----------------------------------------------------------------------------
\* The index behind self.client.search: it holds documents in ranking order
\* and answers a request with the number of documents matching the query
\* and the requested page of them.

\* the characters of dates and filter values, in code-point order
CodePoints == <<"-", "0", "1", "2", "3", "4", "5", "6", "7", "8", "9",
                "<", ">", "a", "b">>

Rank(c) == CHOOSE i \in 1..Len(CodePoints) : CodePoints[i] = c

\* a <= b for strings, compared character by character
RECURSIVE StrLeq(_, _)
StrLeq(a, b) ==
    IF a = <<>> THEN TRUE
    ELSE IF b = <<>> THEN FALSE
    ELSE IF a[1] = b[1] THEN StrLeq(Tail(a), Tail(b))
    ELSE Rank(a[1]) < Rank(b[1])

\* w occurs in s
Contains(s, w) ==
    \E i \in 0..(Len(s) - Len(w)) : SubSeq(s, i + 1, i + Len(w)) = w

\* one clause of a query against a document's source
MatchesClause(c, source) ==
    CASE "match_all" \in DOMAIN c -> TRUE
      [] "multi_match" \in DOMAIN c ->
            \E i \in 1..Len(c.multi_match.fields) :
                LET field == c.multi_match.fields[i] IN
                /\ field \in DOMAIN source
                /\ source[field].t = "str"
                /\ Contains(source[field].s, c.multi_match.query)
      [] "term" \in DOMAIN c ->
            \A field \in DOMAIN c.term :
                /\ field \in DOMAIN source
                /\ pystr(source[field]) = c.term[field]
      [] "range" \in DOMAIN c ->
            /\ "datum" \in DOMAIN source
            /\ source["datum"].t = "str"
            /\ "gte" \in DOMAIN c.range.datum =>
                  StrLeq(c.range.datum["gte"], source["datum"].s)
            /\ "lte" \in DOMAIN c.range.datum =>
                  StrLeq(source["datum"].s, c.range.datum["lte"])

\* a bool query asks for its must clause and every filter clause
MatchesQuery(q, source) ==
    IF "bool" \in DOMAIN q
    THEN /\ MatchesClause(q.bool.must, source)
         /\ \A i \in 1..Len(q.bool.filter) : MatchesClause(q.bool.filter[i], source)
    ELSE MatchesClause(q, source)

RECURSIVE Matching(_, _)
Matching(q, docs) ==
    IF docs = <<>> THEN <<>>
    ELSE (IF MatchesQuery(q, Get(docs[1], "_source", EmptyDict))
          THEN <<docs[1]>> ELSE <<>>)
         \o Matching(q, Tail(docs))

\* docs[from_ : from_ + size]
PageOf(docs, from_, size) ==
    SubSeq(docs, from_ + 1, IF from_ + size < Len(docs) THEN from_ + size ELSE Len(docs))

\* the response to a request over the documents held
IndexAnswer(request, docs) ==
    LET matching == Matching(request.query, docs) IN
    ObjectApiResponse([hits |-> [total |-> [value |-> PyInt(Len(matching))],
                                 hits |-> PageOf(matching, request.from_, request.size)]])

\* the exceptions self.client.search raises: [type, message]
IndexErrors ==
    {[type |-> "ConnectionError", message |-> "Connection error"],
     [type |-> "BadRequestError", message |-> "parsing_exception"],
     [type |-> "ConnectionTimeout", message |-> "Connection timed out"]}

NoError == [type |-> "none", message |-> ""]

\* the text of an exception the interpreter raises (without the operand's
\* type name)
ExceptionText(e) ==
    CASE e = "none" -> ""
      [] e = "AttributeError" -> "object has no attribute"
      [] e = "TypeError" -> "object is not subscriptable"
      [] e = "ValueError" -> "invalid literal for int() with base 10"
      [] OTHER -> e

----------------------------------------------------------------------------
\* Inputs

Text(n) == [i \in 1..n |-> IF i % 7 = 1 THEN " " ELSE "x"]

Queries == {<<>>, <<"c", "a", "t">>}

FilterKeys == {"photographer", "min_date", "max_date", "db", "hoehe", "fotografen"}

\* a name, a year, and a value carrying a markup tag
FilterValues == {<<"a">>, <<"2", "0", "2", "4">>, <<"<", "b", ">">>}

RECURSIVE FilterItems(_)
FilterItems(n) ==
    IF n = 0 THEN {<<>>}
    ELSE FilterItems(n - 1) \cup
         {Append(items, <<k, v>>) :
            items \in {x \in FilterItems(n - 1) : Len(x) = n - 1},
            k \in FilterKeys, v \in FilterValues}

DistinctKeys(items) ==
    \A i, j \in 1..Len(items) : items[i][1] = items[j][1] => i = j

\* the filter maps given to the query builder
FilterMaps ==
    {NoFilters} \cup
    {FilterDict(items) : items \in {x \in FilterItems(MaxFilters) : DistinctKeys(x)}}

\* the filter maps given to search
SearchFilters ==
    {NoFilters, FilterDict(<<>>), FilterDict(<<<<"photographer", <<"a">>>>>>),
     FilterDict(<<<<"photographer", <<"a">>>>, <<"min_date", <<"2", "0", "2", "4">>>>>>),
     FilterDict(<<<<"min_date", <<"a">>>>, <<"photographer", <<"<", "b", ">">>>>>>)}

\* a negative page, page 0, the first page and a later one
Pages == {-1, 0, 1, MaxPage}

Sizes == {1, SizeCap, SizeCap + 1}

Environs == {EmptyDict,
             [IMAGE_BASE_URL |-> PyStr(<<"h", ":", "/", "/", "x">>)]}

\* a dict with the keys of ks, each taking one of the values opts[k]
RECURSIVE DictsOver(_, _)
DictsOver(ks, opts) ==
    IF ks = {} THEN {EmptyDict}
    ELSE LET k == CHOOSE x \in ks : TRUE
             rest == DictsOver(ks \ {k}, opts)
         IN  rest \cup {Put(d, k, v) : d \in rest, v \in opts[k]}

\* the values a source document may hold per field
SourceOptions ==
    [suchtext |-> {PyStr(<<"a", " ", "b">>), PyStr(Text(TitleLen + 2)), PyNone, PyInt(7)},
     title |-> {PyStr(<<"T">>)},
     bildnummer |-> {PyStr(<<"1", "2", "3", "4", "5", "6">>), EmptyStr,
                     PyStr(<<"-", "5">>), PyStr(Text(PadWidth + 1)),
                     PyInt(123456), PyFloat(125)},
     db |-> {PyStr(<<"s", "p">>), EmptyStr, PyInt(5)},
     hoehe |-> {PyStr(<<"1", "0", "0", "0">>), PyStr(<<"a", "b", "c">>),
                PyStr(<<Sup2>>), PyInt(20)}]

Sources == DictsOver(DOMAIN SourceOptions, SourceOptions)

\* hits whose source documents have fields named like the record's own
\* attributes or like the score entry, and one of the db "stock"
SpecialHits ==
    {[_id |-> PyStr(<<"i", "d">>), _score |-> PyFloat(25),
      _source |-> [score |-> PyInt(99), bildnummer |-> PyStr(<<"7">>),
                   custom |-> PyList(2)]],
     [_id |-> PyStr(<<"i", "d">>), _score |-> PyFloat(25),
      _source |-> [id |-> PyStr(<<"x">>), photographer |-> PyStr(<<"p">>),
                   date |-> PyStr(<<"d">>), thumbnail_url |-> PyStr(<<"u">>),
                   fotografen |-> PyStr(<<"F">>), datum |-> PyStr(<<"2", "0", "2", "3">>),
                   title |-> PyStr(<<"T">>), description |-> PyStr(<<"D">>),
                   suchtext |-> PyStr(<<"a", " ", "b">>)]],
     [_id |-> PyStr(<<"i", "d">>), _score |-> PyFloat(25),
      _source |-> [bildnummer |-> PyStr(<<"1", "2", "3", "4", "5", "6">>),
                   db |-> PyStr(<<"s", "t", "o", "c", "k">>)]]}

\* hits over the bildnummer and db values a URL is built from: a number
\* string, a signed one, one longer than the padding, an empty one; a
\* database name, a number, "stock", an empty one
UrlHits ==
    {[_id |-> PyStr(<<"i", "d">>), _score |-> PyFloat(25),
      _source |-> [bildnummer |-> b, db |-> d]] :
        b \in {PyStr(<<"1", "2", "3", "4", "5", "6">>), PyStr(<<"-", "5">>),
               PyStr(Text(PadWidth + 1)), EmptyStr},
        d \in {PyStr(<<"s", "p">>), PyInt(5), PyStr(<<"s", "t", "o", "c", "k">>), EmptyStr}}

\* the hits given to a direct convert_hit_to_media_item call
Hits == {[_id |-> PyStr(<<"i", "d">>), _score |-> PyFloat(25), _source |-> src] :
            src \in Sources}
        \cup SpecialHits

\* the hits an index response is made of: a well-formed document, a hit
\* with no id and no source, and documents with an anomaly each (a numeric
\* bildnummer, a null full-text field, a numeric db)
SampleHits ==
    {[_id |-> PyStr(<<"1">>), _score |-> PyFloat(25),
      _source |-> [bildnummer |-> PyStr(<<"1", "2", "3", "4", "5", "6">>),
                   datum |-> PyStr(<<"2", "0", "2", "3">>),
                   suchtext |-> PyStr(<<"T", "e", "s", "t", " ", "1">>),
                   fotografen |-> PyStr(<<"P", "h">>),
                   hoehe |-> PyStr(<<"1", "0", "0", "0">>),
                   breite |-> PyStr(<<"2", "0", "0", "0">>),
                   db |-> PyStr(<<"s", "t">>)]],
     [_score |-> PyInt(1)],
     [_id |-> PyStr(<<"3">>), _score |-> PyFloat(10),
      _source |-> [bildnummer |-> PyInt(123456), db |-> PyStr(<<"s", "t">>)]],
     [_id |-> PyStr(<<"4">>), _score |-> PyFloat(10),
      _source |-> [bildnummer |-> PyStr(<<"7">>), suchtext |-> PyNone]],
     [_id |-> PyStr(<<"5">>), _score |-> PyFloat(10),
      _source |-> [bildnummer |-> PyStr(<<"7">>), db |-> PyInt(5),
                   breite |-> PyStr(<<"x">>)]]}

RECURSIVE SeqsUpTo(_, _)
SeqsUpTo(S, n) ==
    IF n = 0 THEN {<<>>}
    ELSE SeqsUpTo(S, n - 1) \cup
         {Append(x, e) : x \in {y \in SeqsUpTo(S, n - 1) : Len(y) = n - 1}, e \in S}

HitLists == SeqsUpTo(SampleHits, MaxHits)

\* the documents an index holds
CatalogDocs ==
    {[_id |-> PyStr(<<"1">>), _score |-> PyFloat(25),
      _source |-> [bildnummer |-> PyStr(<<"1", "2", "3", "4", "5", "6">>),
                   datum |-> PyStr(<<"2", "0", "2", "3">>),
                   suchtext |-> PyStr(<<"a", " ", "c", "a", "t">>),
                   fotografen |-> PyStr(<<"a">>),
                   hoehe |-> PyStr(<<"1", "0", "0", "0">>),
                   breite |-> PyStr(<<"2", "0", "0", "0">>),
                   db |-> PyStr(<<"s", "t">>)]],
     [_id |-> PyStr(<<"2">>), _score |-> PyFloat(20),
      _source |-> [bildnummer |-> PyStr(<<"7">>),
                   datum |-> PyStr(<<"2", "0", "2", "5">>),
                   suchtext |-> PyStr(<<"c", "a", "t", "s">>),
                   fotografen |-> PyStr(<<"a">>),
                   db |-> PyStr(<<"s", "p">>)]],
     [_id |-> PyStr(<<"3">>), _score |-> PyFloat(10),
      _source |-> [bildnummer |-> PyStr(<<"8">>),
                   datum |-> PyStr(<<"2", "0", "2", "5">>),
                   suchtext |-> PyStr(<<"d", "o", "g">>),
                   fotografen |-> PyStr(<<"b">>),
                   db |-> PyStr(<<"s", "t">>)]]}

\* the identifiers looked up: one a catalog document has, one none has
MediaIds == {<<"1", "2", "3", "4", "5", "6">>, <<"n", "o">>}

\* the contents of an index: documents in ranking order, none twice
IndexContents ==
    {docs \in SeqsUpTo(CatalogDocs, MaxDocs) :
        \A i, j \in 1..Len(docs) : docs[i] = docs[j] => i = j}

Envelope(total, hits_list) ==
    [hits |-> [total |-> [value |-> PyInt(total)], hits |-> hits_list]]

\* the hit list of a mapping
HitsIn(m) == Get(Get(m, "hits", EmptyDict), "hits", <<>>)

\* the mappings the index answers with: the full envelope, and envelopes
\* lacking the total, the hit list or the whole hits section
Mappings ==
    {Envelope(Len(hs) + more, hs) : hs \in HitLists, more \in {0, MaxMoreTotal}}
    \cup {[hits |-> [hits |-> hs]] : hs \in SeqsUpTo(SampleHits, 1)}
    \cup {[hits |-> [total |-> [value |-> PyInt(MaxMoreTotal)]]], [hits |-> EmptyDict], EmptyDict}

\* every mapping as an ObjectApiResponse, and those of at most one hit as a
\* plain dict too
Responses ==
    {ObjectApiResponse(m) : m \in Mappings}
    \cup {DictResponse(m) :
            m \in {x \in Mappings : Len(HitsIn(x)) <= 1}}

\* the records given to a direct normalize_media_item call
RecordOptions ==
    [bildnummer |-> {PyStr(<<"1", "2">>), PyInt(12345), PyInt(-5), PyFloat(125),
                     PyBool(TRUE), PyNone},
     hoehe |-> {PyStr(<<"1", "0", "0">>), PyStr(<<"0", "0", "7">>), PyStr(<<"a", "b", "c">>),
                PyStr(<<"-", "5">>), PyStr(<<Sup2>>), EmptyStr, PyInt(100), PyList(2)},
     breite |-> {PyStr(<<"2", "0", "0">>), PyStr(<<"x", "y", "z">>), PyInt(200)},
     db |-> {PyStr(<<"t", "e", "s", "t">>), PyInt(5)},
     extra_field |-> {PyStr(<<"v">>), PyList(1)}]

\* a record whose text fields and additional data carry markup tags
MarkupRecord ==
    MediaItem(PyStr(<<"t">>),
              PyStr(<<"T", "<", "i", ">", "x", "<", "/", "i", ">">>),
              PyStr(<<"<", "p", ">", "D", "<", "/", "p", ">">>),
              PyStr(<<"P", "<", "b", ">">>),
              PyStr(<<"2", "0", "2", "0">>),
              [script |-> PyStr(<<"<", "s", ">", "x", "<", "/", "s", ">">>)])

Records ==
    {MediaItem(PyStr(<<"t">>), EmptyStr, EmptyStr, EmptyStr, EmptyStr, ad) :
        ad \in DictsOver(DOMAIN RecordOptions, RecordOptions)}
    \cup {MarkupRecord}

\* a record whose additional data has entries named title and description
TitledRecord ==
    MediaItem(PyStr(<<"t">>), PyStr(<<"T">>), PyStr(<<"D">>), EmptyStr, EmptyStr,
              [title |-> PyStr(<<"o">>), description |-> PyInt(1),
               bildnummer |-> PyInt(123456)])

\* the records serialized where the environment is e: records converted
\* from hits, the same normalized, and records of the client's own
SerializedRecords(e) ==
    LET converted ==
            {convert_hit_to_media_item(h, e).val :
                h \in {x \in SpecialHits \cup UrlHits :
                          convert_hit_to_media_item(x, e).exc = "none"}}
    IN  converted
        \cup {normalize_media_item(r).val : r \in converted \cup {TitledRecord}}
        \cup {MarkupRecord, TitledRecord}

\* the records serialized in some environment
AllSerializedRecords == UNION {SerializedRecords(e) : e \in Environs}

\* the base URLs the API layer is configured with
BaseUrls == {PyNone, PyStr(<<"h", ":", "/", "/", "x">>)}

----------------------------------------------------------------------------
VARIABLES
    environ,   \* the process environment (IMAGE_BASE_URL set or not)
    op,        \* the operation the client runs: "none", "build", "search",
               \* "get_by_id", "convert", "normalize"
    pc,        \* "idle", "awaiting" (the index call is in flight),
               \* "returned", "raised"
    exc,       \* the type of the exception the operation raised, or "none"
    msg,       \* the message of that exception
    args,      \* the arguments of the running search or builder call
    built,     \* the query a direct builder call returned
    esCalls,   \* the requests sent to the index by the running operation
    index,     \* the documents of the index that evaluated the request
    indexError,  \* the exception self.client.search raised, or NoError
    response,  \* the response the index gave
    result,    \* what search returned: [total, items]
    item,      \* the record a direct convert or normalize call works on
    orig,      \* that record as it was given to normalize_media_item
    norms,     \* normalize_media_item calls made on the record
    serialized,  \* the dict to_dict returned for the record
    imageUrl,  \* the base given to build_image_url and the URL it returned
    gateway,   \* the attributes of the service object every caller shares
    frames,    \* per concurrent caller, the local variables of its search
    heap       \* the dicts the concurrent searches hold, by object identity

vars == <<environ, op, pc, exc, msg, args, built, esCalls, index, indexError,
          response, result, item, orig, norms, serialized, imageUrl,
          gateway, frames, heap>>

\* what the API layer holds of a record
apiVars == <<serialized, imageUrl>>

\* the state of the one-call-at-a-time client
clientVars == <<op, pc, exc, msg, args, built, esCalls, index, indexError,
                response, result, item, orig, norms, serialized, imageUrl>>

\* the state of the concurrent callers
threadVars == <<gateway, frames, heap>>

NoArgs == [query |-> <<>>, page |-> 0, size |-> 0, filters |-> NoFilters]
NoQuery == EmptyDict
NoResponse == DictResponse(EmptyDict)
NoResult == [total |-> PyInt(0), items |-> <<>>]
NoItem == MediaItem(EmptyStr, EmptyStr, EmptyStr, EmptyStr, EmptyStr, EmptyDict)
NoImageUrl == [base |-> PyNone, url |-> EmptyStr]

\* the callers that search at the same time
Threads == 1..MaxThreads

\* the service object: self.index, the name of the index searched
Gateway0 == [index |-> <<"m", "e", "d", "i", "a">>]

NoRequest == [query |-> NoQuery, from_ |-> 0, size |-> 0]

\* the local variables of a search not yet called
IdleFrame ==
    [pc |-> "idle", request |-> NoRequest, indexName |-> <<>>, indexError |-> NoError,
     answer |-> EmptyDict, total |-> PyInt(0), hits |-> <<>>, items |-> <<>>,
     normalized |-> <<>>, k |-> 0, exc |-> "none",
     result |-> [total |-> PyInt(0), items |-> <<>>]]

NoThreads ==
    /\ gateway = Gateway0
    /\ frames = [t \in Threads |-> IdleFrame]
    /\ heap = [a \in {} |-> EmptyDict]

Blank ==
    /\ op = "none"
    /\ pc = "idle"
    /\ exc = "none"
    /\ msg = ""
    /\ args = NoArgs
    /\ built = NoQuery
    /\ esCalls = <<>>
    /\ index = <<>>
    /\ indexError = NoError
    /\ response = NoResponse
    /\ result = NoResult
    /\ item = NoItem
    /\ orig = NoItem
    /\ norms = 0
    /\ serialized = EmptyDict
    /\ imageUrl = NoImageUrl

Init ==
    /\ environ \in Environs
    /\ Blank
    /\ NoThreads

Done(outcome) ==
    /\ pc' = IF outcome.exc = "none" THEN "returned" ELSE "raised"
    /\ exc' = outcome.exc
    /\ msg' = ExceptionText(outcome.exc)

\* a direct call of _build_elasticsearch_query(query, filters)
BuildQuery(query, f) ==
    /\ op = "none"
    /\ op' = "build"
    /\ args' = [NoArgs EXCEPT !.query = query, !.filters = f]
    /\ built' = build_elasticsearch_query(query, f)
    /\ pc' = "returned"
    /\ UNCHANGED <<environ, exc, msg, esCalls, index, indexError, response, result,
                   item, orig, norms>>
    /\ UNCHANGED threadVars
    /\ UNCHANGED apiVars

\* search(query, page, size, filters) up to the index call: the query is
\* built, the offset computed and the request sent
Search(query, page, size, f) ==
    /\ op = "none"
    /\ op' = "search"
    /\ pc' = "awaiting"
    /\ args' = [query |-> query, page |-> page, size |-> size, filters |-> f]
    /\ esCalls' = Append(esCalls, IndexRequest(query, page, size, f))
    /\ UNCHANGED <<environ, exc, msg, built, index, indexError, response, result,
                   item, orig, norms>>
    /\ UNCHANGED threadVars
    /\ UNCHANGED apiVars

\* the operation ends with the outcome: its result is returned, or its
\* exception raised
Deliver(outcome) ==
    /\ Done(outcome)
    /\ result' = outcome.val

\* the hit list of a response
HitsOf(r) == Get(Get(ResponseBody(r), "hits", EmptyDict), "hits", <<>>)

\* the index answers (it rejects a negative offset and returns no more hits
\* than the limit): the response is processed, every record normalized and
\* (total, items) returned, unless a step raises
IndexRespond(r) ==
    /\ op = "search" /\ pc = "awaiting"
    /\ esCalls[Len(esCalls)].from_ >= 0
    /\ Len(HitsOf(r)) <= esCalls[Len(esCalls)].size
    /\ response' = r
    /\ Deliver(SearchOutcome(r, environ))
    /\ UNCHANGED <<environ, op, args, built, esCalls, index, indexError, item, orig, norms>>
    /\ UNCHANGED threadVars
    /\ UNCHANGED apiVars

\* the index evaluates the request over the documents it holds, and search
\* goes on as for any response
IndexEvaluate(docs) ==
    /\ op = "search" /\ pc = "awaiting"
    /\ esCalls[Len(esCalls)].from_ >= 0
    /\ index' = docs
    /\ response' = IndexAnswer(esCalls[Len(esCalls)], docs)
    /\ Deliver(SearchOutcome(response', environ))
    /\ UNCHANGED <<environ, op, args, built, esCalls, indexError, item, orig, norms>>
    /\ UNCHANGED threadVars
    /\ UNCHANGED apiVars

\* get_by_id(media_id): a term query on bildnummer for one document
GetByIdRequest(media_id) ==
    [query |-> TermCond("bildnummer", media_id), from_ |-> 0, size |-> 1]

\* what get_by_id returns: the first record of the processed response, or
\* none (an empty items list here)
FirstOrNone(found) ==
    IF found.exc # "none" THEN found
    ELSE Returned([total |-> found.val.total,
                   items |-> IF found.val.items = <<>> THEN <<>>
                             ELSE <<found.val.items[1]>>])

GetByIdOutcome(r, environ_) == FirstOrNone(SearchOutcome(r, environ_))

\* get_by_id(media_id) up to the index call
GetById(media_id) ==
    /\ op = "none"
    /\ op' = "get_by_id"
    /\ pc' = "awaiting"
    /\ args' = [NoArgs EXCEPT !.query = media_id]
    /\ esCalls' = Append(esCalls, GetByIdRequest(media_id))
    /\ UNCHANGED <<environ, exc, msg, built, index, indexError, response, result,
                   item, orig, norms>>
    /\ UNCHANGED threadVars
    /\ UNCHANGED apiVars

\* the index evaluates the lookup over the documents it holds
GetByIdEvaluate(docs) ==
    /\ op = "get_by_id" /\ pc = "awaiting"
    /\ index' = docs
    /\ response' = IndexAnswer(esCalls[Len(esCalls)], docs)
    /\ Deliver(GetByIdOutcome(response', environ))
    /\ UNCHANGED <<environ, op, args, built, esCalls, indexError, item, orig, norms>>
    /\ UNCHANGED threadVars
    /\ UNCHANGED apiVars

\* the failing index call answered by an empty result
IndexFailSwallowed(e) ==
    /\ op \in {"search", "get_by_id"} /\ pc = "awaiting"
    /\ indexError' = e
    /\ pc' = "returned"
    /\ result' = NoResult
    /\ UNCHANGED <<environ, op, exc, msg, args, built, esCalls, index, response,
                   item, orig, norms>>
    /\ UNCHANGED threadVars
    /\ UNCHANGED apiVars

\* the failing index call sent once more before the failure is passed on
IndexFailRetrying(e) ==
    /\ op \in {"search", "get_by_id"} /\ pc = "awaiting"
    /\ IF Len(esCalls) < 2
       THEN /\ esCalls' = Append(esCalls, esCalls[Len(esCalls)])
            /\ UNCHANGED <<indexError, pc, exc, msg>>
       ELSE /\ indexError' = e
            /\ pc' = "raised"
            /\ exc' = e.type
            /\ msg' = e.message
            /\ UNCHANGED esCalls
    /\ UNCHANGED <<environ, op, args, built, index, response, result,
                   item, orig, norms>>
    /\ UNCHANGED threadVars
    /\ UNCHANGED apiVars

\* the index call raises e: nothing catches it, so it leaves
\* fetch_media_items and search as it is
IndexFail(e) ==
    /\ op \in {"search", "get_by_id"} /\ pc = "awaiting"
    /\ indexError' = e
    /\ pc' = "raised"
    /\ exc' = e.type
    /\ msg' = e.message
    /\ UNCHANGED <<environ, op, args, built, esCalls, index, response, result,
                   item, orig, norms>>
    /\ UNCHANGED threadVars
    /\ UNCHANGED apiVars

\* a direct call of convert_hit_to_media_item(hit)
ConvertHit(hit) ==
    /\ op = "none"
    /\ op' = "convert"
    /\ LET outcome == convert_hit_to_media_item(hit, environ) IN
         /\ Done(outcome)
         /\ item' = outcome.val
    /\ response' = DictResponse(Envelope(1, <<hit>>))
    /\ UNCHANGED <<environ, args, built, esCalls, index, indexError, result, orig, norms>>
    /\ UNCHANGED threadVars
    /\ UNCHANGED apiVars

\* the client makes a record of its own
NewRecord(rec) ==
    /\ op = "none"
    /\ op' = "normalize"
    /\ pc' = "returned"
    /\ item' = rec
    /\ orig' = rec
    /\ UNCHANGED <<environ, exc, msg, args, built, esCalls, index, indexError,
                   response, result, norms>>
    /\ UNCHANGED threadVars
    /\ UNCHANGED apiVars

\* normalize_media_item(item) on the client's record or on a converted hit,
\* also on a record an earlier normalize_media_item call raised on
NormalizeItem ==
    /\ op \in {"convert", "normalize"}
    /\ pc = "returned" \/ (pc = "raised" /\ norms >= 1)
    /\ norms < MaxNormalize
    /\ norms' = norms + 1
    /\ orig' = IF norms = 0 THEN item ELSE orig
    /\ LET outcome == normalize_media_item(item) IN
         /\ Done(outcome)
         /\ item' = outcome.val
    /\ UNCHANGED <<environ, op, args, built, esCalls, index, indexError, response, result>>
    /\ UNCHANGED threadVars
    /\ UNCHANGED apiVars

\* media_item.to_dict() on a record: a new dict is filled, the record is
\* assigned nothing
ToDict(rec) ==
    /\ op = "none"
    /\ rec \in SerializedRecords(environ)
    /\ op' = "to_dict"
    /\ pc' = "returned"
    /\ item' = rec
    /\ orig' = rec
    /\ serialized' = to_dict(rec)
    /\ UNCHANGED <<environ, exc, msg, args, built, esCalls, index, indexError,
                   response, result, norms, imageUrl>>
    /\ UNCHANGED threadVars

\* build_image_url(base_url, media) on the serialized record
BuildImageUrl(base_url) ==
    /\ op = "to_dict"
    /\ imageUrl = NoImageUrl
    /\ imageUrl' = [base |-> base_url, url |-> build_image_url(base_url, serialized)]
    /\ UNCHANGED <<environ, op, pc, exc, msg, args, built, esCalls, index, indexError,
                   response, result, item, orig, norms, serialized>>
    /\ UNCHANGED threadVars

\* the operation is over and the client drops what it left
Reset ==
    /\ pc \in {"returned", "raised"}
    /\ op' = "none"
    /\ pc' = "idle"
    /\ exc' = "none"
    /\ msg' = ""
    /\ args' = NoArgs
    /\ built' = NoQuery
    /\ esCalls' = <<>>
    /\ index' = <<>>
    /\ indexError' = NoError
    /\ response' = NoResponse
    /\ result' = NoResult
    /\ item' = NoItem
    /\ orig' = NoItem
    /\ norms' = 0
    /\ serialized' = EmptyDict
    /\ imageUrl' = NoImageUrl
    /\ UNCHANGED environ
    /\ UNCHANGED threadVars

Next ==
    \/ \E q \in Queries, f \in FilterMaps : BuildQuery(q, f)
    \/ \E q \in Queries, p \in Pages, s \in Sizes, f \in SearchFilters : Search(q, p, s, f)
    \/ \E r \in Responses : IndexRespond(r)
    \/ \E docs \in IndexContents : IndexEvaluate(docs)
    \/ \E e \in IndexErrors : IndexFail(e)
    \/ \E media_id \in MediaIds : GetById(media_id)
    \/ \E docs \in IndexContents : GetByIdEvaluate(docs)
    \/ \E hit \in Hits : ConvertHit(hit)
    \/ \E rec \in Records : NewRecord(rec)
    \/ NormalizeItem
    \/ \E rec \in AllSerializedRecords : ToDict(rec)
    \/ \E base_url \in BaseUrls : BuildImageUrl(base_url)
    \/ Reset

Spec == Init /\ [][Next]_vars

----------------------------------------------------------------------------
\* Concurrent callers.  Each caller runs search on the same service object;
\* its locals are its frame, and the dicts it works on live in the heap
\* under the identity of the object (who made it, as what, for which hit).
\* A search proceeds in steps another caller's steps may come between: the
\* call to the index, its answer, one hit conversion, one normalization, the
\* return.

\* the identity of a dict
Address(t, role, i) == [thread |-> t, role |-> role, i |-> i]

\* the hits the index answers the concurrent callers with: a well-formed
\* document, one needing every default, one whose hoehe is no decimal, one
\* with a numeric bildnummer
DocFull ==
    [_id |-> PyStr(<<"1">>), _score |-> PyFloat(10),
     _source |-> [bildnummer |-> PyStr(<<"1", "2", "3", "4", "5", "6">>),
                  suchtext |-> PyStr(<<"T", "e", "s", "t", " ", "1">>),
                  hoehe |-> PyStr(<<"1", "0", "0", "0">>),
                  breite |-> PyStr(<<"2", "0", "0", "0">>),
                  db |-> PyStr(<<"s", "t">>)]]

DocBare ==
    [_id |-> PyStr(<<"2">>), _score |-> PyFloat(10),
     _source |-> [suchtext |-> PyStr(<<"T", "e", "s", "t", " ", "2">>)]]

DocBadHeight ==
    [_id |-> PyStr(<<"3">>), _score |-> PyFloat(10),
     _source |-> [bildnummer |-> PyStr(<<"7">>), hoehe |-> PyStr(<<Sup2>>)]]

DocNumeric ==
    [_id |-> PyStr(<<"4">>), _score |-> PyFloat(10),
     _source |-> [bildnummer |-> PyInt(123456), db |-> PyStr(<<"s", "t">>)]]

ThreadAnswers ==
    {Envelope(0, <<>>), Envelope(3, <<DocFull, DocBare>>),
     Envelope(2, <<DocBare, DocBadHeight>>), Envelope(1, <<DocNumeric>>)}

\* the pages the concurrent callers ask for
ThreadPages == {1, 2}

\* a hit as the caller holds it: its source is a reference into the heap
HitRef(t, i, hit) == [hit EXCEPT !._source = Address(t, "source", i)]

\* the hit a reference stands for
HitValue(h, ref) == [ref EXCEPT !._source = h[ref._source]]

\* the record a reference stands for
ItemValue(h, rec) == [rec EXCEPT !.additional_data = h[rec.additional_data]]

\* lines 110-121: the query is built and the request sent to self.index
ThreadCall(t, page) ==
    /\ frames[t].pc = "idle"
    /\ frames' = [frames EXCEPT ![t] =
                    [@ EXCEPT !.pc = "awaiting",
                              !.request = IndexRequest(<<>>, page, 1, NoFilters),
                              !.indexName = gateway.index]]
    /\ UNCHANGED <<environ, clientVars, gateway, heap>>

\* the caller t takes the mapping m for the answer to its request:
\* process_search_results reads the total and the hit list (lines 192-199)
Received(t, answered, m) ==
    LET hits_list == HitsIn(m) IN
    /\ frames' = [frames EXCEPT ![t] =
                    [@ EXCEPT !.pc = IF hits_list = <<>> THEN "normalizing"
                                     ELSE "converting",
                              !.answer = answered,
                              !.total = Get(Get(Get(m, "hits", EmptyDict), "total", EmptyDict),
                                            "value", PyInt(0)),
                              !.hits = [i \in 1..Len(hits_list) |-> HitRef(t, i, hits_list[i])],
                              !.k = 1]]
    /\ heap' = [a \in (DOMAIN heap) \cup {Address(t, "source", i) : i \in 1..Len(hits_list)} |->
                 IF a.thread = t /\ a.role = "source"
                 THEN hits_list[a.i]._source ELSE heap[a]]

\* the answer kept on the service object and handed to every later caller
ThreadReceiveCached(t, m) ==
    /\ frames[t].pc = "awaiting"
    /\ IF "cache" \in DOMAIN gateway
       THEN Received(t, m, gateway.cache) /\ UNCHANGED gateway
       ELSE Received(t, m, m) /\ gateway' = Put(gateway, "cache", m)
    /\ UNCHANGED <<environ, clientVars>>

\* lines 116-124: self.client.search returns the response of this call
ThreadReceive(t, m) ==
    /\ frames[t].pc = "awaiting"
    /\ Received(t, m, m)
    /\ UNCHANGED <<environ, clientVars, gateway>>

\* self.client.search raises in the caller t
ThreadIndexFail(t, e) ==
    /\ frames[t].pc = "awaiting"
    /\ frames' = [frames EXCEPT ![t] =
                    [@ EXCEPT !.pc = "raised", !.indexError = e, !.exc = e.type]]
    /\ UNCHANGED <<environ, clientVars, gateway, heap>>

\* the record's additional_data is the source dict itself
AdditionalDataRefSource(t, i, source) == source

\* lines 226-232: the dict literal makes a new dict for every record
AdditionalDataRef(t, i, source) == Address(t, "record", i)

\* line 201: the next hit of the list comprehension is converted
ThreadConvert(t) ==
    /\ frames[t].pc = "converting"
    /\ LET fr == frames[t]
           ref == AdditionalDataRef(t, fr.k, fr.hits[fr.k]._source)
           outcome == convert_hit_to_media_item(HitValue(heap, fr.hits[fr.k]), environ)
       IN  IF outcome.exc # "none"
           THEN /\ frames' = [frames EXCEPT ![t] =
                               [@ EXCEPT !.pc = "raised", !.exc = outcome.exc]]
                /\ UNCHANGED heap
           ELSE /\ frames' = [frames EXCEPT ![t] =
                               [@ EXCEPT !.items = Append(@, [outcome.val EXCEPT
                                                              !.additional_data = ref]),
                                         !.normalized = Append(@, 0),
                                         !.pc = IF fr.k = Len(fr.hits) THEN "normalizing"
                                                ELSE "converting",
                                         !.k = IF fr.k = Len(fr.hits) THEN 1 ELSE fr.k + 1]]
                /\ heap' = [a \in (DOMAIN heap) \cup {ref} |->
                             IF a = ref THEN outcome.val.additional_data ELSE heap[a]]
    /\ UNCHANGED <<environ, clientVars, gateway>>

\* media_fetch_service.py lines 37-38: the next record is normalized in
\* place
ThreadNormalize(t) ==
    /\ frames[t].pc = "normalizing"
    /\ frames[t].k <= Len(frames[t].items)
    /\ LET fr == frames[t]
           ref == fr.items[fr.k].additional_data
           outcome == normalize_media_item(ItemValue(heap, fr.items[fr.k]))
       IN  /\ heap' = [heap EXCEPT ![ref] = outcome.val.additional_data]
           /\ frames' = [frames EXCEPT ![t] =
                          [@ EXCEPT !.normalized[fr.k] = @ + 1,
                                    !.pc = IF outcome.exc # "none" THEN "raised" ELSE @,
                                    !.exc = outcome.exc,
                                    !.k = IF outcome.exc # "none" THEN @ ELSE @ + 1]]
    /\ UNCHANGED <<environ, clientVars, gateway>>

\* media_fetch_service.py line 40: return total, items
ThreadReturn(t) ==
    /\ frames[t].pc = "normalizing"
    /\ frames[t].k > Len(frames[t].items)
    /\ frames' = [frames EXCEPT ![t] =
                    [@ EXCEPT !.pc = "returned",
                              !.result = [total |-> frames[t].total,
                                          items |-> frames[t].items]]]
    /\ UNCHANGED <<environ, clientVars, gateway, heap>>

\* the caller is done with what the call left: its objects are dropped
ThreadEnd(t) ==
    /\ frames[t].pc \in {"returned", "raised"}
    /\ frames' = [frames EXCEPT ![t] = IdleFrame]
    /\ heap' = [a \in {x \in DOMAIN heap : x.thread # t} |-> heap[a]]
    /\ UNCHANGED <<environ, clientVars, gateway>>

NextThreads ==
    \/ \E t \in Threads, page \in ThreadPages : ThreadCall(t, page)
    \/ \E t \in Threads, m \in ThreadAnswers : ThreadReceive(t, m)
    \/ \E t \in Threads, e \in IndexErrors : ThreadIndexFail(t, e)
    \/ \E t \in Threads : ThreadConvert(t)
    \/ \E t \in Threads : ThreadNormalize(t)
    \/ \E t \in Threads : ThreadReturn(t)
    \/ \E t \in Threads : ThreadEnd(t)

SpecThreads == Init /\ [][NextThreads]_vars

----------------------------------------------------------------------------
\* Query Builder properties

SeqRange(s) == {s[i] : i \in 1..Len(s)}

HasFilters(f) == ~f.none /\ f.items # <<>>

\* the match clause of a built query: the must part of a composite, else the
\* query itself
MatchClauseOf(q) == IF "bool" \in DOMAIN q THEN q.bool.must ELSE q

BuiltTextClauseOver(fieldSet) ==
    op = "build" =>
        LET m == MatchClauseOf(built) IN
        IF args.query # <<>>
        THEN /\ DOMAIN m = {"multi_match"}
             /\ m.multi_match.query = args.query
             /\ fieldSet \subseteq SeqRange(m.multi_match.fields)
        ELSE m = [match_all |-> <<>>]

\* C1 as stated: for non-empty text the match clause is a multi-field match
\* on that text whose fields cover suchtext, fotografen, title and
\* description; for empty text it is match-everything.
C1_TextClauseCoversPhotographer ==
    BuiltTextClauseOver({"suchtext", "fotografen", "title", "description"})

\* C1 amended: for non-empty text the match clause is a multi-field match on
\* that text whose fields are exactly suchtext, description and title (the
\* photographer field is not searched); for empty text it is
\* match-everything.
C1_TextClause ==
    /\ BuiltTextClauseOver({"suchtext", "title", "description"})
    /\ op = "build" /\ args.query # <<>> =>
          SeqRange(MatchClauseOf(built).multi_match.fields)
            = {"suchtext", "title", "description"}

C1_Witness ==
    /\ op = "build"
    /\ args.query # <<>>
    /\ DOMAIN built = {"multi_match"}

\* C2: the built query is a boolean must+filter composite exactly when the
\* filter map is non-empty, its must part is the match clause built for the
\* same text without filters, and otherwise the query is the bare match
\* clause (match-everything for empty text).
C2_BoolWrapper ==
    op = "build" =>
        /\ ("bool" \in DOMAIN built) <=> HasFilters(args.filters)
        /\ HasFilters(args.filters) =>
              /\ DOMAIN built = {"bool"}
              /\ DOMAIN built.bool = {"must", "filter"}
              /\ built.bool.must = build_elasticsearch_query(args.query, NoFilters)
        /\ ~HasFilters(args.filters) =>
              /\ DOMAIN built \in {{"multi_match"}, {"match_all"}}
              /\ args.query = <<>> => built = [match_all |-> <<>>]

C2_Witness ==
    /\ op = "build"
    /\ ~args.filters.none
    /\ args.filters.items = <<>>
    /\ args.query = <<>>
    /\ built = [match_all |-> <<>>]

\* the constraint a filter entry stands for
ExpectedConstraint(k, v) ==
    CASE k = "photographer" -> [term |-> [fotografen |-> v]]
      [] k = "min_date" -> [range |-> [datum |-> [gte |-> v]]]
      [] k = "max_date" -> [range |-> [datum |-> [lte |-> v]]]
      [] OTHER -> [term |-> (k :> v)]

\* C3: for a non-empty filter map the filter list holds exactly one
\* constraint per filter key and nothing else: photographer a term on
\* fotografen, min_date a range datum >= value, max_date a range datum <=
\* value, any other key k a term on field k.
C3_FilterList ==
    op = "build" /\ HasFilters(args.filters) =>
        LET items == args.filters.items
            conds == built.bool.filter
        IN /\ DOMAIN built.bool = {"must", "filter"}
           /\ Len(conds) = Len(items)
           /\ \E pi \in [1..Len(items) -> 1..Len(conds)] :
                 /\ \A i, j \in 1..Len(items) : pi[i] = pi[j] => i = j
                 /\ \A i \in 1..Len(items) :
                       conds[pi[i]] = ExpectedConstraint(items[i][1], items[i][2])

C3_Witness ==
    /\ op = "build"
    /\ HasFilters(args.filters)
    /\ Len(built.bool.filter) = 2
    /\ \E j \in 1..2 : built.bool.filter[j] = [term |-> [db |-> <<"a">>]]
    /\ \E j \in 1..2 : DOMAIN built.bool.filter[j] = {"range"}

----------------------------------------------------------------------------
\* Search Gateway properties

\* C4: for every search with page >= 1 and size in [1,100], the offset
\* passed to the index is (page-1)*size and the limit passed is size.
C4_OffsetAndLimit ==
    op = "search" /\ args.page >= 1 /\ args.size \in 1..SizeCap =>
        /\ Len(esCalls) >= 1
        /\ \A i \in 1..Len(esCalls) :
              /\ esCalls[i].from_ = (args.page - 1) * args.size
              /\ esCalls[i].size = args.size

C4_Witness ==
    /\ op = "search"
    /\ args.page = 2
    /\ args.size = SizeCap
    /\ esCalls # <<>>
    /\ esCalls[1].from_ = SizeCap

\* C5 as stated: a search with page < 1 ends in a caller-visible
\* invalid-argument failure with no partial result, and no request carrying
\* a negative offset is ever sent to the index.
C5_PageBelowOneRejected ==
    /\ \A i \in 1..Len(esCalls) : esCalls[i].from_ >= 0
    /\ op = "search" /\ args.page < 1 =>
          /\ pc # "returned"
          /\ result = NoResult

\* C6 as stated: the result limit sent to the index never exceeds 100 (a
\* search asked for with size > 100 is executed with limit 100).
C6_LimitCapped ==
    op = "search" /\ args.page >= 1 =>
        \A i \in 1..Len(esCalls) : esCalls[i].size <= SizeCap

\* the hit list and the total of the response received
ResponseHits == HitsOf(response)

ResponseHasTotal ==
    /\ "hits" \in DOMAIN ResponseBody(response)
    /\ "total" \in DOMAIN ResponseBody(response)["hits"]

\* C7: search returns one record per hit of the response, in the order of
\* the hit list (record i has the id of hit i), the returned total is the
\* total of the response, and the record count is <= size whenever the
\* index returned at most `limit` hits.
C7_OneRecordPerHitInOrder ==
    op = "search" /\ pc = "returned" =>
        /\ Len(result.items) = Len(ResponseHits)
        /\ \A i \in 1..Len(ResponseHits) :
              result.items[i].id = Get(ResponseHits[i], "_id", PyStr(<<>>))
        /\ ResponseHasTotal =>
              result.total = ResponseBody(response)["hits"]["total"]["value"]
        /\ Len(ResponseHits) <= esCalls[Len(esCalls)].size =>
              Len(result.items) <= args.size

C7_Witness ==
    /\ op = "search"
    /\ pc = "returned"
    /\ Len(result.items) = 2
    /\ result.items[1].id # result.items[2].id
    /\ result.total.n > 2

----------------------------------------------------------------------------
\* Record properties

DefaultKeys == {"bildnummer", "hoehe", "breite", "db"}

DefaultOf(k) ==
    CASE k = "bildnummer" -> PyStr(<<>>)
      [] k = "db" -> PyStr(<<"s", "t">>)
      [] OTHER -> PyInt(0)

HasDefaultsFor(ad, upstream) ==
    /\ DefaultKeys \subseteq DOMAIN ad
    /\ \A k \in DefaultKeys \ DOMAIN upstream : ad[k] = DefaultOf(k)

\* C8: for every record returned by search, and after normalize_media_item
\* on any record, additional_data contains bildnummer, hoehe, breite and
\* db; a key absent upstream holds the default "", 0, 0 and "st".
C8_DefaultCompleteness ==
    /\ op = "search" /\ pc = "returned" =>
          \A i \in 1..Len(result.items) :
              HasDefaultsFor(result.items[i].additional_data,
                             Get(ResponseHits[i], "_source", <<>>))
    /\ op \in {"normalize", "convert"} /\ norms >= 1 =>
          HasDefaultsFor(item.additional_data, orig.additional_data)

C8_Witness ==
    /\ op = "normalize"
    /\ norms = 1
    /\ pc = "returned"
    /\ orig.additional_data = <<>>
    /\ item.additional_data =
         [bildnummer |-> PyStr(<<>>), hoehe |-> PyInt(0), breite |-> PyInt(0),
          db |-> PyStr(<<"s", "t">>)]

IsNumber(v) == v.t \in {"int", "float"}

\* the integer a string of digit characters denotes
RECURSIVE DigitsValue(_)
DigitsValue(s) ==
    IF s = <<>> THEN 0
    ELSE 10 * DigitsValue(SubSeq(s, 1, Len(s) - 1))
         + (IF s[Len(s)] = "sup2" THEN 2
            ELSE CHOOSE d \in 0..9 : AsciiDigits[d + 1] = s[Len(s)])

NumericLooking(v) ==
    /\ v.t = "str"
    /\ v.s # <<>>
    /\ \A i \in 1..Len(v.s) : v.s[i] \in SeqRange(AsciiDigits) \cup {"sup2"}

\* C9 as stated: after normalization a bildnummer that arrived as a number
\* is its decimal string, every numeric-looking hoehe/breite string is the
\* corresponding integer, and a non-numeric hoehe/breite value is left
\* exactly as it was.
C9_Coercion ==
    op \in {"normalize", "convert"} /\ norms = 1 =>
        /\ pc = "returned"
        /\ ("bildnummer" \in DOMAIN orig.additional_data
              /\ IsNumber(orig.additional_data["bildnummer"])) =>
              /\ item.additional_data["bildnummer"].t = "str"
              /\ orig.additional_data["bildnummer"].t = "int" =>
                    item.additional_data["bildnummer"].s
                      = IntToStr(orig.additional_data["bildnummer"].n)
        /\ \A f \in {"hoehe", "breite"} \cap DOMAIN orig.additional_data :
              IF NumericLooking(orig.additional_data[f])
              THEN item.additional_data[f] = PyInt(DigitsValue(orig.additional_data[f].s))
              ELSE item.additional_data[f] = orig.additional_data[f]

\* C10 as stated: a malformed upstream document never aborts a search:
\* record construction, thumbnail derivation and normalization raise no
\* exception, and a search the index answered returns one record per hit.
C10_MalformedNeverAborts ==
    op = "search" =>
        /\ indexError = NoError => exc = "none"
        /\ pc \in {"returned", "raised"} /\ indexError = NoError =>
              /\ pc = "returned"
              /\ Len(result.items) = Len(ResponseHits)

----------------------------------------------------------------------------
\* Sanitizer properties

MaxTextLen == 500     \* the length a sanitized string is truncated to

\* s holds a markup tag: a "<" with a ">" after it
HasTag(s) == \E i, j \in 1..Len(s) : i < j /\ s[i] = "<" /\ s[j] = ">"

SanitizedText(v) == v.t = "str" => ~HasTag(v.s) /\ Len(v.s) <= MaxTextLen

SanitizedRecord(r) ==
    /\ \A k \in DOMAIN r.additional_data : SanitizedText(r.additional_data[k])
    /\ SanitizedText(r.title)
    /\ SanitizedText(r.description)
    /\ SanitizedText(r.photographer)

\* C11 as stated: in every record returned by search, and after
\* normalize_media_item, every string-valued entry of additional_data is
\* free of markup tags and at most 500 characters long, and title,
\* description and photographer are free of markup tags as well.
C11_RecordsSanitized ==
    /\ op = "search" /\ pc = "returned" =>
          \A i \in 1..Len(result.items) : SanitizedRecord(result.items[i])
    /\ op \in {"normalize", "convert"} /\ norms >= 1 /\ pc = "returned" =>
          SanitizedRecord(item)

\* the values the filter clauses of a query hold
FilterClauseValues(q) ==
    IF "bool" \in DOMAIN q
    THEN {IF "term" \in DOMAIN q.bool.filter[i]
          THEN q.bool.filter[i].term[CHOOSE k \in DOMAIN q.bool.filter[i].term : TRUE]
          ELSE q.bool.filter[i].range.datum[
                   CHOOSE k \in DOMAIN q.bool.filter[i].range.datum : TRUE] :
            i \in 1..Len(q.bool.filter)}
    ELSE {}

\* C12 as stated: no value placed in a term or range constraint of a query
\* sent to the index holds markup or exceeds 500 characters.
C12_FilterValuesSanitized ==
    op = "search" /\ args.page >= 1 =>
        \A i \in 1..Len(esCalls) :
            \A v \in FilterClauseValues(esCalls[i].query) :
                ~HasTag(v) /\ Len(v) <= MaxTextLen

----------------------------------------------------------------------------
\* Date filter properties

IsDigits(s) == \A i \in 1..Len(s) : IsDecimalChar(s[i])

\* a calendar date YYYY-MM-DD, or the reduced forms YYYY-MM and YYYY
IsIsoDate(s) ==
    \/ Len(s) = 4 /\ IsDigits(s)
    \/ /\ Len(s) \in {7, 10}
       /\ IsDigits(SubSeq(s, 1, 4)) /\ s[5] = "-" /\ IsDigits(SubSeq(s, 6, 7))
       /\ ParseNat(SubSeq(s, 6, 7)) \in 1..12
       /\ Len(s) = 10 =>
             /\ s[8] = "-" /\ IsDigits(SubSeq(s, 9, 10))
             /\ ParseNat(SubSeq(s, 9, 10)) \in 1..31

BadDateEntry(entry) ==
    entry[1] \in {"min_date", "max_date"} /\ ~IsIsoDate(entry[2])

RECURSIVE DropBadDates(_)
DropBadDates(items) ==
    IF items = <<>> THEN <<>>
    ELSE (IF BadDateEntry(items[1]) THEN <<>> ELSE <<items[1]>>)
         \o DropBadDates(Tail(items))

WithoutBadDates(f) == IF f.none THEN f ELSE FilterDict(DropBadDates(f.items))

\* the index evaluated the request of the running search over its documents
Evaluated ==
    /\ op = "search"
    /\ pc \in {"returned", "raised"}
    /\ indexError = NoError
    /\ response = IndexAnswer(esCalls[Len(esCalls)], index)

\* C13 as stated: a min_date or max_date filter whose value is no
\* well-formed ISO-8601 date is dropped: the query sent holds no range
\* constraint for it and is the query of the remaining filters and the same
\* text, and the search returns the total of the same search without that
\* filter.
C13_BadDateDropped ==
    op = "search" /\ args.page >= 1 =>
        /\ \A i \in 1..Len(esCalls) :
              esCalls[i].query =
                  build_elasticsearch_query(args.query, WithoutBadDates(args.filters))
        /\ Evaluated =>
              /\ pc = "returned"
              /\ result.total =
                    PyInt(Len(Matching(build_elasticsearch_query(
                                           args.query, WithoutBadDates(args.filters)),
                                       index)))

----------------------------------------------------------------------------
\* Thumbnail properties

SourceOf(hit) == Get(hit, "_source", EmptyDict)

\* the source document has the field, and not as an empty value
PresentNonEmpty(source, field) == field \in DOMAIN source /\ Truthy(source[field])

\* C14 as stated: thumbnail_url is non-empty only when the hit's source
\* document has both bildnummer and db present and non-empty.
C14_ThumbnailNeedsBoth ==
    /\ op = "convert" /\ norms = 0 /\ item.thumbnail_url # EmptyStr =>
          /\ PresentNonEmpty(SourceOf(ResponseHits[1]), "bildnummer")
          /\ PresentNonEmpty(SourceOf(ResponseHits[1]), "db")
    /\ op = "search" /\ pc = "returned" =>
          \A i \in 1..Len(result.items) :
              result.items[i].thumbnail_url # EmptyStr =>
                  /\ PresentNonEmpty(SourceOf(ResponseHits[i]), "bildnummer")
                  /\ PresentNonEmpty(SourceOf(ResponseHits[i]), "db")

\* what the amended claim asks of a record and the source it was made from
ThumbnailOnlyWithBildnummer(record, source) ==
    record.thumbnail_url # EmptyStr =>
        /\ PresentNonEmpty(source, "bildnummer")
        /\ "db" \notin DOMAIN source \/ Truthy(source["db"])

\* C14 amended: thumbnail_url is non-empty only when the source document has
\* a non-empty bildnummer and its db is non-empty or absent (an absent db
\* counts as "st"); a hit without bildnummer or with an empty db gets an
\* empty thumbnail_url.
C14_ThumbnailNeedsBildnummer ==
    /\ op = "convert" /\ norms = 0 =>
          ThumbnailOnlyWithBildnummer(item, SourceOf(ResponseHits[1]))
    /\ op = "search" /\ pc = "returned" =>
          \A i \in 1..Len(result.items) :
              ThumbnailOnlyWithBildnummer(result.items[i], SourceOf(ResponseHits[i]))

C14_Witness ==
    /\ op = "convert"
    /\ pc = "returned"
    /\ norms = 0
    /\ "db" \notin DOMAIN SourceOf(ResponseHits[1])
    /\ item.additional_data["bildnummer"] = PyStr(<<"1", "2", "3", "4", "5", "6">>)
    /\ Contains(item.thumbnail_url.s,
                <<"/", "s", "t", "/", "0", "0", "0", "0", "1", "2", "3", "4", "5", "6", "/">>)

\* s with zeros put in front of it up to w characters
LeftPadded(s, w) == [i \in 1..(w - Len(s)) |-> "0"] \o s

Chars_None == <<"N", "o", "n", "e">>

\* the URL asked for: origin, /bild/, db, /, the padded bildnummer, /s.jpg
UrlOf(origin, db, padded) ==
    origin \o <<"/", "b", "i", "l", "d", "/">> \o db \o <<"/">> \o padded
           \o <<"/", "s", ".", "j", "p", "g">>

\* the record was converted from a source with a non-empty bildnummer
\* string of at most 10 characters and a non-empty db
C15_Case ==
    /\ op = "convert" /\ norms = 0 /\ pc = "returned"
    /\ item.additional_data["bildnummer"].t = "str"
    /\ Len(item.additional_data["bildnummer"].s) \in 1..PadWidth
    /\ Truthy(item.additional_data["db"])

\* the configured origin, None being written out when none is configured
OriginText ==
    IF "IMAGE_BASE_URL" \in DOMAIN environ
    THEN environ["IMAGE_BASE_URL"].s ELSE Chars_None

\* C15 as stated: for every non-empty bildnummer string of at most 10
\* characters and non-empty db the derived URL is exactly
\* <image_base_url>/bild/<db>/<bildnummer left-padded with zeros to 10
\* characters>/s.jpg.
C15_UrlLeftPadded ==
    C15_Case =>
        item.thumbnail_url.s =
            UrlOf(OriginText, pystr(item.additional_data["db"]),
                  LeftPadded(item.additional_data["bildnummer"].s, PadWidth))

\* C15 amended: the same for every such bildnummer that does not begin with
\* a sign; behind a leading "+" or "-" the zeros follow the sign.
C15_UrlFormat ==
    C15_Case =>
        LET b == item.additional_data["bildnummer"].s IN
        item.thumbnail_url.s =
            UrlOf(OriginText, pystr(item.additional_data["db"]),
                  IF b[1] \in {"+", "-"}
                  THEN <<b[1]>> \o LeftPadded(Tail(b), PadWidth - 1)
                  ELSE LeftPadded(b, PadWidth))

C15_Witness ==
    /\ C15_Case
    /\ environ = [IMAGE_BASE_URL |-> PyStr(<<"h", ":", "/", "/", "x">>)]
    /\ item.thumbnail_url.s =
         <<"h", ":", "/", "/", "x", "/", "b", "i", "l", "d", "/", "s", "p", "/",
           "0", "0", "0", "0", "1", "2", "3", "4", "5", "6", "/", "s", ".", "j", "p", "g">>

----------------------------------------------------------------------------
\* Failure properties

\* C16: when the index call fails, the search call fails too: the caller
\* gets the failure with the type and the message the index call raised, it
\* is not turned into a returned (empty) result, and no (total, records)
\* result is returned.
C16_FailureSurfaced ==
    op = "search" /\ indexError # NoError =>
        /\ pc = "raised"
        /\ exc = indexError.type
        /\ msg = indexError.message
        /\ msg # ""
        /\ result = NoResult

C16_Witness ==
    /\ op = "search"
    /\ pc = "raised"
    /\ indexError = [type |-> "ConnectionError", message |-> "Connection error"]
    /\ msg = "Connection error"

\* C17: every search call issues exactly one request to the index, whether
\* that request is still in flight, succeeded or failed; a failure is not
\* retried.
C17_OneRequest ==
    op = "search" => Len(esCalls) = 1

C17_Witness ==
    /\ op = "search"
    /\ pc = "raised"
    /\ indexError.type = "ConnectionTimeout"
    /\ Len(esCalls) = 1

\* the response reports no hit: an empty hit list and a total of 0, if any
ReportsNoHits ==
    /\ ResponseHits = <<>>
    /\ ResponseHasTotal =>
          ResponseBody(response)["hits"]["total"]["value"] = PyInt(0)

\* C18: a query or lookup-by-id the index answers with zero hits completes
\* normally with total 0 and no records (get_by_id yields none); it does not
\* raise.
C18_NoHitsIsNoFailure ==
    /\ op \in {"search", "get_by_id"}
    /\ pc \in {"returned", "raised"}
    /\ indexError = NoError
    /\ ReportsNoHits
    => /\ pc = "returned"
       /\ exc = "none"
       /\ result.total = PyInt(0)
       /\ result.items = <<>>

C18_Witness ==
    /\ Evaluated
    /\ pc = "returned"
    /\ index # <<>>
    /\ HasFilters(args.filters)
    /\ response = ObjectApiResponse(Envelope(0, <<>>))
    /\ result = NoResult

----------------------------------------------------------------------------
\* Relational properties

\* C19: applying normalize_media_item to a record it was already applied to
\* leaves the record, and the outcome of the call, as the first application
\* left them.
C19_NormalizeIdempotent ==
    [][(op \in {"normalize", "convert"} /\ norms >= 1 /\ norms' = norms + 1)
          => (item' = item /\ exc' = exc /\ pc' = pc)]_vars

C19_Witness ==
    /\ op = "normalize"
    /\ norms = 2
    /\ pc = "returned"
    /\ {"bildnummer", "hoehe"} \subseteq DOMAIN orig.additional_data
    /\ orig.additional_data["bildnummer"] = PyInt(12345)
    /\ item.additional_data["bildnummer"] = PyStr(<<"1", "2", "3", "4", "5">>)
    /\ orig.additional_data["hoehe"] = PyStr(<<"0", "0", "7">>)
    /\ item.additional_data["hoehe"] = PyInt(7)

\* items without its i-th entry
RemoveAt(items, i) == SubSeq(items, 1, i - 1) \o SubSeq(items, i + 1, Len(items))

\* the total the index reports for the text and the filter map
TotalFor(query, f, docs) ==
    Len(Matching(build_elasticsearch_query(query, f), docs))

\* C20: the total returned for a filter map is at most the total the same
\* index returns for the same text and the map without any one of its
\* filters (so the total under two filters is at most the total under
\* either alone).
C20_FilterMonotone ==
    Evaluated /\ pc = "returned" /\ HasFilters(args.filters) =>
        \A i \in 1..Len(args.filters.items) :
            result.total.n <=
                TotalFor(args.query, FilterDict(RemoveAt(args.filters.items, i)), index)

C20_Witness ==
    /\ Evaluated
    /\ pc = "returned"
    /\ Len(args.filters.items) = 2
    /\ result.total = PyInt(1)
    /\ TotalFor(args.query, FilterDict(RemoveAt(args.filters.items, 2)), index) = 2

----------------------------------------------------------------------------
\* Concurrency properties

\* what a caller's result stands for: the total and the records with their
\* additional_data read from the heap
ResultValue(h, res) ==
    [total |-> res.total, items |-> [i \in 1..Len(res.items) |-> ItemValue(h, res.items[i])]]

\* the addresses a frame refers to
FrameRefs(fr) ==
    {fr.hits[i]._source : i \in 1..Len(fr.hits)}
    \cup {fr.items[i].additional_data : i \in 1..Len(fr.items)}

\* C21: under every interleaving of the steps of concurrent searches on one
\* service object, a search that returns returns the (total, records) the
\* search returns alone for the response the index gave to it, a search that
\* raises raises what it raises alone, no step writes the shared service
\* object, and a search refers to no dict another search made.
C21_NoInterference ==
    /\ gateway = Gateway0
    /\ \A t \in Threads :
          /\ frames[t].pc = "returned" =>
                /\ SearchOutcome(ObjectApiResponse(frames[t].answer), environ).exc = "none"
                /\ ResultValue(heap, frames[t].result)
                     = SearchOutcome(ObjectApiResponse(frames[t].answer), environ).val
          /\ frames[t].pc = "raised" /\ frames[t].indexError = NoError =>
                frames[t].exc
                  = SearchOutcome(ObjectApiResponse(frames[t].answer), environ).exc
          /\ frames[t].pc # "idle" =>
                /\ frames[t].indexName = Gateway0.index
                /\ \A a \in FrameRefs(frames[t]) : a.thread = t /\ a \in DOMAIN heap

C21_Witness ==
    /\ frames[1].pc = "returned"
    /\ frames[1].answer = Envelope(3, <<DocFull, DocBare>>)
    /\ frames[2].pc = "normalizing"
    /\ frames[2].k = 2
    /\ frames[2].answer = Envelope(2, <<DocBare, DocBadHeight>>)
    /\ ResultValue(heap, frames[1].result).items[2].additional_data["db"] = PyStr(<<"s", "t">>)

----------------------------------------------------------------------------
\* Hit conversion properties

\* t is s with the whitespace at both ends taken away
StrippedOf(t, s) ==
    /\ \E a \in 1..(Len(s) + 1), b \in 0..Len(s) :
          /\ t = SubSeq(s, a, b)
          /\ \A i \in 1..Len(s) : (i < a \/ i > b) => s[i] \in Whitespace
    /\ t # <<>> => t[1] \notin Whitespace /\ t[Len(t)] \notin Whitespace

\* the source's bildnummer is a string, if it has one
TextualBildnummer(source) ==
    "bildnummer" \in DOMAIN source => source["bildnummer"].t = "str"

\* C22 as stated, for a hit whose bildnummer is a string or absent: an
\* explicit title (description) of the source document is the record's
\* title (description); without a title, the title is the first 50
\* characters of the full-text field with the whitespace at both ends
\* stripped; without a description, the description is the whole full-text
\* field; without a full-text field either, both are empty.
C22_TitleDescriptionDefaults ==
    op = "convert" /\ norms = 0 /\ TextualBildnummer(SourceOf(ResponseHits[1])) =>
        LET source == SourceOf(ResponseHits[1]) IN
        /\ "title" \in DOMAIN source =>
              pc = "returned" /\ item.title = source["title"]
        /\ "description" \in DOMAIN source =>
              pc = "returned" /\ item.description = source["description"]
        /\ ("title" \notin DOMAIN source /\ "suchtext" \in DOMAIN source
              /\ source["suchtext"].t = "str") =>
              /\ pc = "returned"
              /\ item.title.t = "str"
              /\ Len(item.title.s) <= TitleLen
              /\ StrippedOf(item.title.s,
                            SubSeq(source["suchtext"].s, 1,
                                   IF Len(source["suchtext"].s) < TitleLen
                                   THEN Len(source["suchtext"].s) ELSE TitleLen))
        /\ ("description" \notin DOMAIN source /\ "suchtext" \in DOMAIN source
              /\ pc = "returned") =>
              item.description = source["suchtext"]
        /\ "suchtext" \notin DOMAIN source =>
              /\ pc = "returned"
              /\ "title" \notin DOMAIN source => item.title = EmptyStr
              /\ "description" \notin DOMAIN source => item.description = EmptyStr

\* the relevance score of a hit
ScoreOf(hit) == Get(hit, "_score", PyInt(0))

\* every field of the source that is not promoted is an entry of the
\* additional data, and no promoted field is
FieldsCarried(record, source) ==
    /\ (DOMAIN source) \ PromotedKeys \subseteq DOMAIN record.additional_data
    /\ PromotedKeys \cap DOMAIN record.additional_data = {}

\* C23 as stated: for every hit, each source field that is not promoted
\* is in additional_data under its own name, no promoted field (title,
\* description, fotografen, datum) is in additional_data, and the entry
\* score is the relevance score of the hit.
C23_ScoreIsRelevance ==
    /\ op = "convert" /\ norms = 0 /\ pc = "returned" =>
          /\ FieldsCarried(item, SourceOf(ResponseHits[1]))
          /\ \A k \in (DOMAIN SourceOf(ResponseHits[1])) \ PromotedKeys :
                item.additional_data[k] = SourceOf(ResponseHits[1])[k]
          /\ item.additional_data["score"] = ScoreOf(ResponseHits[1])
    /\ op = "search" /\ pc = "returned" =>
          \A i \in 1..Len(result.items) :
              /\ FieldsCarried(result.items[i], SourceOf(ResponseHits[i]))
              /\ result.items[i].additional_data["score"] = ScoreOf(ResponseHits[i])

\* C23 amended: the same, the entry score being the relevance score of the
\* hit unless the source document has a field named score of its own, whose
\* value the entry then holds.
C23_FieldsCarried ==
    /\ op = "convert" /\ norms = 0 /\ pc = "returned" =>
          /\ FieldsCarried(item, SourceOf(ResponseHits[1]))
          /\ \A k \in (DOMAIN SourceOf(ResponseHits[1])) \ PromotedKeys :
                item.additional_data[k] = SourceOf(ResponseHits[1])[k]
          /\ "score" \notin DOMAIN SourceOf(ResponseHits[1]) =>
                item.additional_data["score"] = ScoreOf(ResponseHits[1])
    /\ op = "search" /\ pc = "returned" =>
          \A i \in 1..Len(result.items) :
              /\ FieldsCarried(result.items[i], SourceOf(ResponseHits[i]))
              /\ "score" \notin DOMAIN SourceOf(ResponseHits[i]) =>
                    result.items[i].additional_data["score"] = ScoreOf(ResponseHits[i])

C23_Witness ==
    /\ op = "convert" /\ norms = 0 /\ pc = "returned"
    /\ DOMAIN SourceOf(ResponseHits[1])
         = {"id", "photographer", "date", "thumbnail_url", "fotografen", "datum",
            "title", "description", "suchtext"}
    /\ DOMAIN item.additional_data
         = {"bildnummer", "hoehe", "breite", "db", "score",
            "id", "photographer", "date", "thumbnail_url", "suchtext"}
    /\ item.additional_data["score"] = PyFloat(25)
    /\ item.photographer = PyStr(<<"F">>)

\* a hit whose bildnummer is a number, with the db "st" and no full-text
\* field
NumericBildnummerHit(hit) ==
    /\ {"bildnummer", "db"} \subseteq DOMAIN SourceOf(hit)
    /\ SourceOf(hit)["bildnummer"].t = "int"
    /\ SourceOf(hit)["db"] = PyStr(<<"s", "t">>)
    /\ "suchtext" \notin DOMAIN SourceOf(hit)

\* C24 as stated: a search whose response holds one hit with a numeric
\* bildnummer and the db "st" returns its record with the thumbnail_url of
\* the bildnummer's decimal string: the identifier segment is that string
\* left-padded with zeros to 10 characters.
C24_ThumbnailAfterCoercion ==
    (/\ op = "search"
     /\ pc \in {"returned", "raised"}
     /\ indexError = NoError
     /\ Len(ResponseHits) = 1
     /\ NumericBildnummerHit(ResponseHits[1]))
    => /\ pc = "returned"
       /\ Len(result.items) = 1
       /\ result.items[1].thumbnail_url =
            PyStr(UrlOf(OriginText, <<"s", "t">>,
                        LeftPadded(IntToStr(SourceOf(ResponseHits[1])["bildnummer"].n),
                                   PadWidth)))

----------------------------------------------------------------------------
\* Envelope properties

\* the mapping the response received carries, directly or as its body
CarriedMapping == IF response.hasBody THEN response.body ELSE response.dict

\* the outcome of the running search
OutcomeNow == [exc |-> exc, val |-> result]

\* C25: a search yields the same outcome, (total, records) or exception,
\* for a mapping given directly and for the same mapping as the body of a
\* response object; a mapping without hits section yields total 0 and no
\* records, and one without total yields what the same mapping with total 0
\* yields.
C25_EnvelopeTolerance ==
    op = "search" /\ pc \in {"returned", "raised"} /\ indexError = NoError =>
        /\ OutcomeNow = SearchOutcome(DictResponse(CarriedMapping), environ)
        /\ OutcomeNow = SearchOutcome(ObjectApiResponse(CarriedMapping), environ)
        /\ "hits" \notin DOMAIN CarriedMapping => OutcomeNow = Returned(NoResult)
        /\ ("hits" \in DOMAIN CarriedMapping
              /\ "hits" \notin DOMAIN CarriedMapping["hits"]) =>
              /\ pc = "returned"
              /\ result.items = <<>>
        /\ ("hits" \in DOMAIN CarriedMapping
              /\ "total" \notin DOMAIN CarriedMapping["hits"]) =>
              /\ pc = "returned" => result.total = PyInt(0)
              /\ OutcomeNow
                   = SearchOutcome(DictResponse(Envelope(0, HitsIn(CarriedMapping))),
                                   environ)

C25_Witness ==
    /\ op = "search"
    /\ pc = "returned"
    /\ ~response.hasBody
    /\ ResponseHasTotal
    /\ Len(result.items) = 1
    /\ result.total = PyInt(1 + MaxMoreTotal)
    /\ result = SearchOutcome(ObjectApiResponse(response.dict), environ).val

----------------------------------------------------------------------------
\* Frame properties

\* the entries normalization may rewrite: a bildnummer that is a number and
\* a hoehe or breite that is a string of digits
MayBeCoerced(k, v) ==
    \/ k = "bildnummer" /\ (IsNumber(v) \/ v.t = "bool")
    \/ k \in {"hoehe", "breite"} /\ NumericLooking(v)

AnsweredHits(fr) == HitsIn(fr.answer)

\* the record made from a hit alone: converted, and normalized if n = 1
RecordAlone(hit, n) ==
    IF n = 0 THEN convert_hit_to_media_item(hit, environ).val
    ELSE normalize_media_item(convert_hit_to_media_item(hit, environ).val).val

\* C27: at every step of a search, each hit of the response and its source
\* mapping are as they arrived; the additional_data of every record is a
\* dict of its own, different from that of every other record and from
\* every source mapping; each record is the conversion of its own hit,
\* normalized at most once, and exactly once when the search returns.
C27_FreshRecords ==
    \A t \in Threads :
        /\ \A i \in 1..Len(frames[t].hits) :
              HitValue(heap, frames[t].hits[i]) = AnsweredHits(frames[t])[i]
        /\ \A i \in 1..Len(frames[t].items) :
              /\ \A j \in 1..Len(frames[t].items) :
                    frames[t].items[i].additional_data = frames[t].items[j].additional_data
                        => i = j
              /\ \A u \in Threads : \A j \in 1..Len(frames[u].hits) :
                    frames[t].items[i].additional_data # frames[u].hits[j]._source
              /\ \A u \in Threads \ {t} : \A j \in 1..Len(frames[u].items) :
                    frames[t].items[i].additional_data # frames[u].items[j].additional_data
              /\ frames[t].normalized[i] \in {0, 1}
              /\ frames[t].pc = "returned" => frames[t].normalized[i] = 1
              /\ ItemValue(heap, frames[t].items[i])
                   = RecordAlone(AnsweredHits(frames[t])[i], frames[t].normalized[i])
        /\ frames[t].pc = "returned" => Len(frames[t].items) = Len(AnsweredHits(frames[t]))

C27_Witness ==
    /\ frames[1].pc = "normalizing"
    /\ frames[1].k = 2
    /\ frames[1].answer = Envelope(3, <<DocFull, DocBare>>)
    /\ frames[1].normalized = <<1, 0>>
    /\ heap[frames[1].hits[1]._source]["hoehe"] = PyStr(<<"1", "0", "0", "0">>)
    /\ heap[frames[1].items[1].additional_data]["hoehe"] = PyInt(1000)
    /\ "hoehe" \notin DOMAIN heap[frames[1].hits[2]._source]
    /\ frames[2].pc = "converting"

----------------------------------------------------------------------------
\* Serialization properties

\* C28: to_dict returns a mapping whose keys are the six named keys and
\* every key of additional_data; a key of additional_data has the value
\* additional_data gives it, also when it is named like one of the six, and
\* every other named key has the value of the record's attribute; the record
\* is left as it was.
C28_ToDict ==
    op = "to_dict" =>
        /\ DOMAIN serialized
             = {"id", "title", "description", "photographer", "date", "thumbnail_url"}
               \cup DOMAIN orig.additional_data
        /\ \A k \in DOMAIN orig.additional_data : serialized[k] = orig.additional_data[k]
        /\ \A k \in (DOMAIN serialized) \ (DOMAIN orig.additional_data) :
              serialized[k] = orig[k]
        /\ item = orig

C28_Witness ==
    /\ op = "to_dict"
    /\ {"id", "photographer", "date", "thumbnail_url"} \subseteq DOMAIN item.additional_data
    /\ item.id = PyStr(<<"i", "d">>)
    /\ serialized["id"] = PyStr(<<"x">>)
    /\ item.photographer = PyStr(<<"F">>)
    /\ serialized["photographer"] = PyStr(<<"p">>)
    /\ serialized["title"] = PyStr(<<"T">>)
    /\ serialized["score"] = PyFloat(25)

\* the record has a non-empty bildnummer string and a db that is there, not
\* empty and not "stock"
C29_Case ==
    /\ op = "to_dict"
    /\ imageUrl # NoImageUrl
    /\ imageUrl.base = ImageBaseUrl(environ)
    /\ {"bildnummer", "db"} \subseteq DOMAIN item.additional_data
    /\ item.additional_data["bildnummer"].t = "str"
    /\ item.additional_data["bildnummer"].s # <<>>
    /\ Truthy(item.additional_data["db"])
    /\ item.additional_data["db"] # PyStr(<<"s", "t", "o", "c", "k">>)

\* C29: for such a record, build_image_url given the base URL the service
\* reads from its environment returns the URL build_thumbnail_url returns
\* for the record's bildnummer and db, which is the thumbnail_url of a
\* record that has one.
C29_UrlBuildersAgree ==
    C29_Case =>
        /\ Returned(imageUrl.url)
             = build_thumbnail_url(item.additional_data["bildnummer"],
                                   item.additional_data["db"], environ)
        /\ item.thumbnail_url # EmptyStr => imageUrl.url = item.thumbnail_url

C29_Witness ==
    /\ C29_Case
    /\ item.additional_data["bildnummer"] = PyStr(<<"-", "5">>)
    /\ item.additional_data["db"] = PyInt(5)
    /\ imageUrl.url = item.thumbnail_url
    /\ imageUrl.url.s =
         <<"h", ":", "/", "/", "x", "/", "b", "i", "l", "d", "/", "5", "/",
           "-", "0", "0", "0", "0", "0", "0", "0", "0", "5", "/", "s", ".", "j", "p", "g">>

====
